---- MODULE Spec2Model ----
(***************************************************************************)
(* Model of bot.py: the scanner (entry confirmation and dual-leg entry),   *)
(* the exit monitor, the per-symbol liquidation watcher and the shared     *)
(* flatten routine close_all_and_wait, running as concurrent threads over  *)
(* the module-level dictionaries of bot.py and two venues.                 *)
(*                                                                         *)
(* Units.  Money is in 1e-4 USD, a price is in cents per base unit, a      *)
(* quantity is in hundredths of a base unit, so quantity * price is money. *)
(* A percentage is in hundredths of a percent (PCT == 100%).               *)
(***************************************************************************)
EXTENDS Integers, Sequences, FiniteSets, TLC

Symbols == {"s1", "s2"}
\* the symbols are interchangeable: the first entry attempt is taken to be on s1
FirstSymbol == "s1"
Venues == {"binance", "kucoin"}
\* a liquidation watcher thread is named by the symbol it watches
Threads == {"scanner", "exit"} \cup Symbols

-----------------------------------------------------------------------------
\* Program constants (bot.py:44-56, 1356, 1518).
PCT == 10000
NOTIONAL == 100000
ENTRY_SPREAD == 150
PROFIT_TARGET == 5
EXIT_EPSILON == 2
MAX_NOTIONAL_MISMATCH_PCT == 50
REBALANCE_MIN_DOLLARS == 5000
WATCHER_DETECT_CONFIRM == 2
CONFIRMATIONS == 3

\* Bounds of the model.
MaxPolls == 2        \* polls of close_all_and_wait's wait loop before it times out
MaxCount == 4        \* cap of the confirmation counters
MaxFaults == 2       \* faults of the venues: a liquidation, a failed fetch, a rejected
                     \* close order, an exception out of close_all_and_wait, a fill
                     \* away from the trigger price, a ticker with zero prices, a
                     \* missing price
\* A behaviour is followed through MaxAttempts entry attempts and one fault, or
\* through one entry attempt and MaxFaults faults.
MaxAttempts == 2     \* entry attempts of the scanner

-----------------------------------------------------------------------------
\* Inputs: top-of-book quotes and executed prices.
\* bb/ba: Binance bid/ask, kb/ka: KuCoin bid/ask.
QuoteA    == [bb |-> 99,  ba |-> 100, kb |-> 102, ka |-> 103]
QuoteALow == [bb |-> 99,  ba |-> 100, kb |-> 101, ka |-> 102]
QuoteB    == [bb |-> 102, ba |-> 103, kb |-> 99,  ka |-> 100]
QuoteBLow == [bb |-> 101, ba |-> 102, kb |-> 99,  ka |-> 100]
QuoteN    == [bb |-> 100, ba |-> 101, kb |-> 100, ka |-> 101]
Quotes == {QuoteA, QuoteALow, QuoteB, QuoteBLow, QuoteN}
\* A symbol priced so high that $10 buys less than one KuCoin contract (0.5 units)
\* and still 0.47 units on Binance.
QuoteHigh == [bb |-> 2090, ba |-> 2100, kb |-> 2150, ka |-> 2160]
\* What the scanner can be handed for a candidate.
ScanQuotes == Quotes \cup {QuoteHigh}
\* get_prices_for_symbols, lines 738 and 743: a ticker whose prices are zero (or,
\* on KuCoin, absent or empty) is stored as the pair (0.0, 0.0).
QuoteZeroKc  == [bb |-> 99, ba |-> 100, kb |-> 0,   ka |-> 0]
QuoteZeroBin == [bb |-> 0,  ba |-> 0,   kb |-> 102, ka |-> 103]
ZeroQuotes == {QuoteZeroKc, QuoteZeroBin}
\* What the exit monitor can be handed for a symbol whose two tickers are there.
ExitQuotes == Quotes \cup ZeroQuotes
\* An order fills at the price it was triggered at; a KuCoin order can also slip
\* by one tick upwards, or to 170.
ExecPrices(v, trigger_price) ==
    {trigger_price} \cup (IF v = "kucoin" THEN {trigger_price + 1, 170} ELSE {})

Abs(x) == IF x < 0 THEN -x ELSE x
Max(a, b) == IF a >= b THEN a ELSE b

\* The venue's amount step for a symbol, contractSize * 10^-precision, in
\* hundredths of a base unit: Binance trades 0.01 units, KuCoin contracts of 0.5.
AmountStep(v) == IF v = "binance" THEN 1 ELSE 50

\* round_down(value, precision): floor to a multiple of the step.
round_down(value, step) == (value \div step) * step

\* compute_amount_for_notional: the floor-rounded amount for a USD notional at a
\* price, and the notional that amount implies.
compute_amount_for_notional(v, desired_usdt, price) ==
    IF price <= 0
    THEN [amt |-> 0, implied |-> 0]
    ELSE LET amt == round_down(desired_usdt \div price, AmountStep(v))
         IN  [amt |-> amt, implied |-> amt * price]

\* mismatch_pct <= MAX_NOTIONAL_MISMATCH_PCT (mismatch is 100 when both are 0).
MismatchWithin(a, b) ==
    IF Max(a, b) > 0
    THEN Abs(a - b) * PCT <= MAX_NOTIONAL_MISMATCH_PCT * Max(a, b)
    ELSE FALSE

\* A spread 100*num/den percent against a threshold in hundredths of a percent.
SpreadAtLeast(num, den, th) == num * PCT >= th * den

-----------------------------------------------------------------------------
VARIABLES
    positions,               \* bot.py:181  symbol -> "none" / "caseA" / "caseB"
    entry_confirm_count,     \* bot.py:186
    exit_confirm_count,      \* bot.py:187
    entry_prices,            \* bot.py:184  symbol -> executed price per venue
    entry_spreads,           \* bot.py:183  symbol -> <<num, den>>, the spread 100*num/den %
    TRADED_BINANCE_SYMBOLS,  \* bot.py:191
    KUCOIN_CCXT_MAP,         \* bot.py:190  the symbols that have a KuCoin market mapped
    liquidation_watchers,    \* bot.py:193  the symbols with a registered watcher
    closing_in_progress,     \* bot.py:194
    terminate_bot,           \* bot.py:195
    qty,                     \* the venues: venue -> symbol -> open quantity (0 flat, 1 open)
    faults,                  \* faults the venues may still produce
    attempts,                \* entry attempts the scanner is still followed through
    pc,                      \* thread -> position in its code
    ex,                      \* the scanner's frame of execute_caseA / execute_caseB
    exit_todo,               \* exit_monitor_loop: symbols of this iteration still to visit
    exit_sym,                \* exit_monitor_loop: the symbol being closed
    polls,                   \* close_all_and_wait: polls done by each caller's wait loop
    zero_cnt,                \* watcher locals zero_cnt_bin / zero_cnt_kc
    seen_nonzero,            \* watcher locals seen_nonzero_bin / seen_nonzero_kc
    wtarget,                 \* watcher: venue handed to close_single_exchange_position
    obs_run,                 \* history: consecutive qualifying observations of a symbol
    below_seen,              \* history: a below-threshold observation since the counter was 0
    rd_seen,                 \* history: the watcher has read this leg non-zero
    rd_zeros,                \* history: zero readings of this leg since its last non-zero one
    wlog,                    \* history: what a watcher did after detecting a sustained zero
    exit_run,                \* history: consecutive polls with the exit condition true
    wait_result,             \* history: what close_all_and_wait returned to the exit monitor
    matcher,                 \* an application of match_base_exposure_per_exchange
    window,                  \* one monitoring window of a candidate: what it has seen and what is to come
    feed,                    \* the fetches of one watcher: which of them are still to fail
    spread_call              \* an application of calculate_spread

vars == <<positions, entry_confirm_count, exit_confirm_count, entry_prices,
          entry_spreads, TRADED_BINANCE_SYMBOLS, KUCOIN_CCXT_MAP,
          liquidation_watchers, closing_in_progress, terminate_bot, qty, faults,
          attempts, pc, ex, exit_todo, exit_sym, polls, zero_cnt, seen_nonzero,
          wtarget, obs_run, below_seen, rd_seen, rd_zeros, wlog, exit_run,
          wait_result, matcher, window, feed, spread_call>>

sharedVars == <<positions, entry_confirm_count, exit_confirm_count, entry_prices,
                entry_spreads, TRADED_BINANCE_SYMBOLS, KUCOIN_CCXT_MAP>>
watcherVars == <<zero_cnt, seen_nonzero, wtarget, rd_seen, rd_zeros, wlog>>
scanHist == <<obs_run, below_seen>>
exitVars == <<exit_todo, exit_sym, exit_run>>

\* match_base_exposure_per_exchange has not been applied.
NoMatch == [n |-> 0, bin_price |-> 0, kc_price |-> 0, bin_prec |-> 0, kc_prec |-> 0,
            kc_contract_size |-> 0, done |-> FALSE, notional_bin |-> 0,
            notional_kc |-> 0, bin_base_amount |-> 0, kc_contracts |-> 0]
NoPrices == [binance |-> 0, kucoin |-> 0]
NoResult == [done |-> FALSE, ok |-> FALSE, price |-> 0, filled |-> FALSE]
IdleEx == [sym |-> "none", case |-> "none", bin_px |-> 0, kc_px |-> 0, obs |-> 0,
           res |-> [v \in Venues |-> NoResult], flat |-> FALSE, handler |-> FALSE]
Other(v) == IF v = "binance" THEN "kucoin" ELSE "binance"

\* The module's state after import, before any thread has run.
\* No monitoring window is followed observation by observation.
NoWindow == [obs |-> <<>>, low |-> FALSE, dir |-> "none", run |-> 0]

\* No watcher is followed fetch by fetch.
NoFeed == [errs |-> <<>>, held |-> FALSE]

\* No application of calculate_spread.
NoSpreadCall == [bin_bid |-> 0, bin_ask |-> 0, ku_bid |-> 0, ku_ask |-> 0, done |-> FALSE,
                 result |-> <<"none", 0, 1>>]

ModuleState ==
    /\ positions = [s \in Symbols |-> "none"]
    /\ entry_confirm_count = [s \in Symbols |-> 0]
    /\ exit_confirm_count = [s \in Symbols |-> 0]
    /\ entry_prices = [s \in Symbols |-> NoPrices]
    /\ entry_spreads = [s \in Symbols |-> <<0, 1>>]
    /\ TRADED_BINANCE_SYMBOLS = {}
    /\ KUCOIN_CCXT_MAP = {}
    /\ liquidation_watchers = {}
    /\ closing_in_progress = FALSE
    /\ terminate_bot = FALSE
    /\ qty = [v \in Venues |-> [s \in Symbols |-> 0]]
    /\ \/ attempts = MaxAttempts /\ faults = 1
       \/ attempts = 1 /\ faults = MaxFaults
    /\ pc = [t \in Threads |-> IF t = "scanner" THEN "scan"
                                ELSE IF t = "exit" THEN "top" ELSE "off"]
    /\ ex = IdleEx
    /\ exit_todo = {}
    /\ exit_sym = "none"
    /\ polls = [t \in Threads |-> 0]
    /\ zero_cnt = [s \in Symbols |-> [v \in Venues |-> 0]]
    /\ seen_nonzero = [s \in Symbols |-> [v \in Venues |-> FALSE]]
    /\ wtarget = [s \in Symbols |-> "none"]
    /\ obs_run = [s \in Symbols |-> 0]
    /\ below_seen = [s \in Symbols |-> FALSE]
    /\ rd_seen = [s \in Symbols |-> [v \in Venues |-> FALSE]]
    /\ rd_zeros = [s \in Symbols |-> [v \in Venues |-> 0]]
    /\ wlog = [s \in Symbols |-> <<>>]
    /\ exit_run = [s \in Symbols |-> 0]
    /\ wait_result = "none"

Init ==
    ModuleState /\ matcher = NoMatch /\ window = NoWindow /\ feed = NoFeed
                /\ spread_call = NoSpreadCall

-----------------------------------------------------------------------------
\* The venues as the program reads them.

Min(a, b) == IF a <= b THEN a ELSE b

\* The legs a fetch of the tracked symbols can report open: has_open_positions and
\* close_all_and_wait look at TRADED_BINANCE_SYMBOLS on Binance and at
\* KUCOIN_CCXT_MAP on KuCoin only.
OpenTracked ==
    {l \in Venues \X Symbols :
        /\ qty[l[1]][l[2]] > 0
        /\ l[2] \in (IF l[1] = "binance" THEN TRADED_BINANCE_SYMBOLS
                                         ELSE KUCOIN_CCXT_MAP)}

\* has_open_positions: True when some fetch reports a non-zero amount.  A fetch
\* that raises (and whose fallback raises) leaves pos = None and the symbol is
\* passed over; fetch_fails says that every fetch of an open leg failed this time.
has_open_positions(fetch_fails) == ~fetch_fails /\ OpenTracked # {}
\* Whether the fetches fail only matters when a tracked leg is open.
FetchFails == IF OpenTracked = {} \/ faults = 0 THEN {FALSE} ELSE BOOLEAN
Cost(failed) == IF failed THEN 1 ELSE 0

\* What the watcher can read for a leg: None on a fetch error ("err"), 0.0 for
\* an empty or flat position list ("zero"), the signed amount otherwise.
Readings(v, s) == {"err", IF qty[v][s] > 0 THEN "nonzero" ELSE "zero"}

\* safe_create_order: no order when the amount floors to zero; otherwise what
\* the venue did with it (out).
OrderOutcomes(v, trigger_price) ==
    {[done |-> TRUE, ok |-> FALSE, price |-> 0, filled |-> FALSE],
     [done |-> TRUE, ok |-> TRUE, price |-> 0, filled |-> TRUE]}
    \cup {[done |-> TRUE, ok |-> TRUE, price |-> p, filled |-> TRUE] :
             p \in ExecPrices(v, trigger_price)}
safe_create_order(v, notional, price, out) ==
    IF compute_amount_for_notional(v, notional, price).amt <= 0
    THEN [done |-> TRUE, ok |-> FALSE, price |-> 0, filled |-> FALSE]
    ELSE out

\* The order filled away from the price it was triggered at (slippage, lines
\* 1086-1087); the model counts it among the faults of the venues.
Slipped(r, trigger_price) == r.price # 0 /\ r.price # trigger_price

-----------------------------------------------------------------------------
\* scanner_main_loop: one evaluation of a candidate with both prices present.
\* The shortlist of a window is not kept: an evaluated symbol is a candidate of
\* the current window, and a symbol popped from it is back with the next window.

TriggerCase(q) ==
    IF q.ba < q.kb THEN "caseA" ELSE IF q.bb > q.ka THEN "caseB" ELSE "none"
TriggerNum(q) == IF q.ba < q.kb THEN q.kb - q.ba ELSE q.bb - q.ka
TriggerDen(q) == IF q.ba < q.kb THEN q.ba ELSE q.ka
Qualifies(q) ==
    /\ TriggerCase(q) # "none"
    /\ SpreadAtLeast(TriggerNum(q), TriggerDen(q), ENTRY_SPREAD)

\* The condition of lines 1516 / 1562 (and, re-evaluated, of 1555 / 1595).
EntryGuard(s, q, fetch_fails) ==
    /\ positions[s] = "none"
    /\ SpreadAtLeast(TriggerNum(q), TriggerDen(q), ENTRY_SPREAD)
    /\ ~closing_in_progress
    /\ ~has_open_positions(fetch_fails)

\* A scanner whose counter survives an observation that does not qualify.
NextCountNoReset(s, q, f1, f2) ==
    IF ~Qualifies(q) THEN entry_confirm_count[s]
    ELSE IF EntryGuard(s, q, f1) THEN entry_confirm_count[s] + 1
    ELSE IF ~EntryGuard(s, q, f2) THEN 0
    ELSE entry_confirm_count[s]

\* entry_confirm_count[sym] after lines 1497-1518 and 1553-1556: reset when the
\* spread is below ENTRY_SPREAD or neither side is crossed, incremented when the
\* guard holds, reset when the guard fails both times it is evaluated.
NextCount(s, q, f1, f2) ==
    LET c0 == IF Qualifies(q) THEN entry_confirm_count[s] ELSE 0
    IN  IF TriggerCase(q) = "none" THEN 0
        ELSE IF EntryGuard(s, q, f1) THEN c0 + 1
        ELSE IF ~EntryGuard(s, q, f2) THEN 0
        ELSE c0

Fires(s, q, f1, f2) ==
    /\ TriggerCase(q) # "none"
    /\ EntryGuard(s, q, f1)
    /\ NextCount(s, q, f1, f2) >= CONFIRMATIONS

\* resolved: resolve_kucoin_trade_symbol found the market (lines 1528-1533).
Observe(s, q, f1, f2, resolved) ==
    /\ pc["scanner"] = "scan"
    /\ attempts > 0
    /\ LET c == NextCount(s, q, f1, f2)
           run == IF Qualifies(q) THEN Min(obs_run[s] + 1, CONFIRMATIONS) ELSE 0
           low == below_seen[s] \/ ~Qualifies(q)
       IN  /\ c <= MaxCount
           /\ IF Fires(s, q, f1, f2) /\ resolved
              THEN /\ attempts = MaxAttempts => s = FirstSymbol
                   /\ attempts' = attempts - 1
                   /\ entry_confirm_count' = [entry_confirm_count EXCEPT ![s] = c]
                   /\ TRADED_BINANCE_SYMBOLS' = TRADED_BINANCE_SYMBOLS \cup {s}
                   /\ KUCOIN_CCXT_MAP' = KUCOIN_CCXT_MAP \cup {s}
                   /\ ex' = [IdleEx EXCEPT
                               !.sym = s,
                               !.case = TriggerCase(q),
                               !.bin_px = IF TriggerCase(q) = "caseA" THEN q.ba ELSE q.bb,
                               !.kc_px = IF TriggerCase(q) = "caseA" THEN q.kb ELSE q.ka,
                               !.obs = run]
                   /\ pc' = [pc EXCEPT !["scanner"] = "dispatch"]
                   /\ obs_run' = [obs_run EXCEPT ![s] = 0]
                   /\ below_seen' = [below_seen EXCEPT ![s] = low]
              ELSE IF Fires(s, q, f1, f2)
              THEN /\ entry_confirm_count' = [entry_confirm_count EXCEPT ![s] = 0]
                   /\ obs_run' = [obs_run EXCEPT ![s] = 0]
                   /\ below_seen' = [below_seen EXCEPT ![s] = FALSE]
                   /\ UNCHANGED <<TRADED_BINANCE_SYMBOLS, KUCOIN_CCXT_MAP, ex, pc,
                                  attempts>>
              ELSE /\ entry_confirm_count' = [entry_confirm_count EXCEPT ![s] = c]
                   /\ obs_run' = [obs_run EXCEPT ![s] = IF c = 0 THEN 0 ELSE run]
                   /\ below_seen' = [below_seen EXCEPT ![s] = IF c = 0 THEN FALSE ELSE low]
                   /\ UNCHANGED <<TRADED_BINANCE_SYMBOLS, KUCOIN_CCXT_MAP, ex, pc,
                                  attempts>>
    /\ faults' = faults - Cost(f1 \/ f2)
    /\ UNCHANGED <<positions, exit_confirm_count, entry_prices, entry_spreads,
                   liquidation_watchers, closing_in_progress, terminate_bot, qty,
                   exitVars, polls, watcherVars, wait_result, matcher>>

\* Lines 1488-1492: a price of the candidate is missing in this round (the fetch
\* raised or returned no bid/ask); the evaluation is passed over and the counter
\* is left as it is.  The missing price is one of the faults of the venues.
ObserveMissing(s) ==
    /\ pc["scanner"] = "scan"
    /\ attempts > 0
    /\ faults > 0
    /\ faults' = faults - 1
    /\ entry_confirm_count' = [entry_confirm_count EXCEPT ![s] = @]
    /\ UNCHANGED <<matcher, window, feed, spread_call, wait_result, attempts, positions, exit_confirm_count,
                   entry_prices, entry_spreads, TRADED_BINANCE_SYMBOLS, KUCOIN_CCXT_MAP,
                   liquidation_watchers, closing_in_progress, terminate_bot, qty, pc,
                   ex, exitVars, polls, watcherVars, scanHist>>

\* The price execute_case was handed for venue v (bin_ask / kc_bid in case A,
\* bin_bid / kc_ask in case B).
TriggerPrice(v) == IF v = "binance" THEN ex.bin_px ELSE ex.kc_px

\* execute_caseA / execute_caseB, lines 1057-1062: one leg's order thread.
LegOrder(v, out) ==
    /\ pc["scanner"] = "dispatch"
    /\ ~ex.res[v].done
    /\ LET r == safe_create_order(v, NOTIONAL, TriggerPrice(v), out)
       IN  /\ ex' = [ex EXCEPT !.res[v] = r]
           /\ qty' = [qty EXCEPT ![v][ex.sym] = IF r.filled THEN 1 ELSE @]
           /\ faults >= Cost(Slipped(r, TriggerPrice(v)))
           /\ faults' = faults - Cost(Slipped(r, TriggerPrice(v)))
    /\ UNCHANGED <<matcher, window, feed, spread_call, wait_result, attempts,
                   sharedVars, liquidation_watchers, closing_in_progress,
                   terminate_bot, pc, exitVars, polls,
                   watcherVars, scanHist>>

\* Line 1065 / 1200: both dispatches returned ok with an executed price.
LegsFilled(rb, rk) == rk.ok /\ rb.ok /\ rk.price # 0 /\ rb.price # 0

Implied(v, price) == compute_amount_for_notional(v, NOTIONAL, price).implied

\* Lines 1116-1162 / 1251-1297: the rebalance order goes to the venue with the
\* smaller implied notional, for the dollar gap, at that leg's executed price; the
\* recomputed mismatch adds the notional of a gap-sized order to BOTH implieds.
\* A rebalance that goes to the venue with the larger implied notional.
RebalanceVenueLarger(ib, ik) == IF ib < ik THEN "kucoin" ELSE "binance"
RebalanceVenue(ib, ik) == IF ib < ik THEN "binance" ELSE "kucoin"
\* Lines 1057-1058 / 1192-1193: the side of the entry order of a leg.
EntrySide(case, v) ==
    IF case = "caseA" THEN (IF v = "binance" THEN "buy" ELSE "sell")
    ELSE (IF v = "binance" THEN "sell" ELSE "buy")
\* Lines 1122-1127 / 1257-1262: the side handed to safe_create_order for the rebalance.
RebalanceSide(case, v) ==
    IF v = "binance" THEN (IF case = "caseA" THEN "buy" ELSE "sell")
    ELSE (IF case = "caseA" THEN "sell" ELSE "buy")
\* Lines 1115-1127 / 1250-1262: the orders execute_case hands to safe_create_order
\* after the two legs, in the order of the calls.
RebalanceRequests(case, rb, rk) ==
    LET ib == Implied("binance", rb.price)
        ik == Implied("kucoin", rk.price)
        rv == RebalanceVenue(ib, ik)
    IN  IF LegsFilled(rb, rk) /\ ~MismatchWithin(ib, ik)
           /\ Abs(ib - ik) >= REBALANCE_MIN_DOLLARS
        THEN <<[venue |-> rv, side |-> RebalanceSide(case, rv), notional |-> Abs(ib - ik)]>>
        ELSE <<>>
\* A rebalance that is taken to have closed the gap.
RebalanceAlwaysAccepted(rb, rk, reb_out) == TRUE
RebalanceAccepted(rb, rk, reb_out) ==
    LET ib == Implied("binance", rb.price)
        ik == Implied("kucoin", rk.price)
        diff == Abs(ib - ik)
        rv == RebalanceVenue(ib, ik)
        reb == safe_create_order(rv, diff, IF rv = "binance" THEN rb.price ELSE rk.price,
                                 reb_out)
        px_bin == IF reb.price # 0 THEN reb.price ELSE rb.price
        px_kc == IF reb.price # 0 THEN reb.price ELSE rk.price
        added_bin == compute_amount_for_notional("binance", diff, px_bin).implied
        added_kc == compute_amount_for_notional("kucoin", diff, px_kc).implied
    IN  reb.ok /\ MismatchWithin(ib + added_bin, ik + added_kc)

\* An execute_case that marks the position open whatever the legs returned.
DecisionAlwaysAccept(rb, rk, reb_out) == "accept"
\* An execute_case that flattens on every mismatch above tolerance.
DecisionNoDust(rb, rk, reb_out) ==
    IF LegsFilled(rb, rk) /\ MismatchWithin(Implied("binance", rb.price),
                                            Implied("kucoin", rk.price))
    THEN "accept" ELSE "flatten"

\* The outcome of execute_caseA / execute_caseB once both order threads are joined
\* (lines 1065-1180 / 1200-1315): "accept" marks the position open, "flatten"
\* calls close_all_and_wait.
Decision(rb, rk, reb_out) ==
    IF ~LegsFilled(rb, rk) THEN "flatten"
    ELSE LET ib == Implied("binance", rb.price)
             ik == Implied("kucoin", rk.price)
         IN  IF MismatchWithin(ib, ik) THEN "accept"
             ELSE IF Abs(ib - ik) >= REBALANCE_MIN_DOLLARS
                  THEN IF RebalanceAccepted(rb, rk, reb_out) THEN "accept" ELSE "flatten"
                  ELSE "accept"

\* Spreads are kept exact, as <<num, den>> for 100*num/den percent.
SpreadGE(x, y) == x[1] * y[2] >= y[1] * x[2]
real_entry_spread(case, pb, pk) ==
    IF case = "caseA" THEN <<pk - pb, pb>> ELSE <<pb - pk, pk>>
trigger_entry_spread(case, tb, tk) ==
    IF case = "caseA" THEN <<tk - tb, tb>> ELSE <<tb - tk, tk>>
\* Lines 1080 / 1215: both arms of the conditional are the real spread.
final_entry_spread(case, pb, pk, tb, tk) ==
    IF SpreadGE(real_entry_spread(case, pb, pk), trigger_entry_spread(case, tb, tk))
    THEN real_entry_spread(case, pb, pk)
    ELSE real_entry_spread(case, pb, pk)

\* An execute_case that records the position before it looks at the legs.
PositionAlways(decision, case, old) == case

\* positions[sym] as execute_case leaves it.
PositionAfter(decision, case, old) == IF decision = "accept" THEN case ELSE old

\* An execute_case that stores the executed prices before it looks at the legs.
EntryPricesAlways(decision, rb, rk, old) == [binance |-> rb.price, kucoin |-> rk.price]

\* entry_prices[sym] as execute_case leaves it: written on the accept branches
\* only (lines 1082, 1144, 1167 / 1217, 1279, 1302).
EntryPricesAfter(decision, rb, rk, old) ==
    IF decision = "accept" THEN [binance |-> rb.price, kucoin |-> rk.price] ELSE old

\* A coordinator that waits for the KuCoin thread only.
JoinedFirst(res) == res["kucoin"].done
\* Line 1060 / 1195: t1.start(); t2.start(); t1.join(); t2.join() -- both order
\* threads have returned before the next statement runs.
Joined(res) == \A v \in Venues : res[v].done

\* execute_caseA / execute_caseB after the join.
Decide(reb_out) ==
    /\ pc["scanner"] = "dispatch"
    /\ Joined(ex.res)
    /\ LET s == ex.sym
           rb == ex.res["binance"]
           rk == ex.res["kucoin"]
           d == Decision(rb, rk, reb_out)
       IN  /\ positions' = [positions EXCEPT ![s] = PositionAfter(d, ex.case, @)]
           /\ entry_prices' = [entry_prices EXCEPT ![s] = EntryPricesAfter(d, rb, rk, @)]
           /\ IF d = "accept"
              THEN /\ entry_spreads' = [entry_spreads EXCEPT
                                          ![s] = final_entry_spread(ex.case, rb.price, rk.price,
                                                                    ex.bin_px, ex.kc_px)]
                   /\ entry_confirm_count' = [entry_confirm_count EXCEPT ![s] = 0]
                   /\ below_seen' = [below_seen EXCEPT ![s] = FALSE]
                   \* _start_liquidation_watcher_for_symbol, lines 781-785, 879-880
                   /\ liquidation_watchers' = liquidation_watchers \cup {s}
                   /\ pc' = [pc EXCEPT !["scanner"] = "scan",
                                       ![s] = IF s \in liquidation_watchers THEN @ ELSE "winit"]
                   /\ ex' = IdleEx
              ELSE /\ pc' = [pc EXCEPT !["scanner"] = "close_start"]
                   /\ UNCHANGED <<entry_spreads, entry_confirm_count,
                                  below_seen, liquidation_watchers, ex>>
    /\ UNCHANGED <<matcher, window, feed, spread_call, wait_result, attempts,
                   exit_confirm_count, TRADED_BINANCE_SYMBOLS, KUCOIN_CCXT_MAP,
                   closing_in_progress, terminate_bot, qty, faults, exitVars,
                   polls, watcherVars, obs_run>>

-----------------------------------------------------------------------------
\* close_all_and_wait, run by thread t (the scanner, the exit monitor or a watcher).

\* What a venue answers to the close of one leg: its answer to the reduce-only
\* market order (accepted, rejected as reduce-only, or any other error) and the answer
\* it gives to a closePosition order for the same leg.
CloseResponses ==
    {<<"ok", "ok">>, <<"reduce_only", "ok">>, <<"reduce_only", "fail">>,
     <<"error", "ok">>, <<"error", "fail">>}

\* Lines 484-508 (Binance) and 555-561 (KuCoin): the order forms close_all_and_wait
\* submits for a leg whose reduce-only order got the answer first. Binance is retried
\* with closePosition only when the error text names ReduceOnly or -2022; KuCoin's
\* except clause only prints.
CloseOrders(v, first) ==
    IF v = "binance" /\ first = "reduce_only"
    THEN <<"reduceOnly", "closePosition">>
    ELSE <<"reduceOnly">>

\* The leg is flat after the orders of CloseOrders got the answers r.
LegClosedBy(v, r) ==
    \/ r[1] = "ok"
    \/ Len(CloseOrders(v, r[1])) = 2 /\ r[2] = "ok"

\* The legs closed when the venues answer resp, one answer per open tracked leg.
ClosedLegs(resp) == {l \in OpenTracked : LegClosedBy(l[1], resp[l])}

\* Lines 453-561: the flag is set, the tracked positions are fetched and one close
\* is submitted per open leg; resp are the venues' answers and closed the legs they
\* leave flat. Every leg left open is a venue fault.
CloseStart(t, resp) ==
    /\ pc[t] = "close_start"
    /\ resp \in [OpenTracked -> CloseResponses]
    /\ LET closed == ClosedLegs(resp) IN
       /\ Cardinality(OpenTracked \ closed) <= faults
       /\ faults' = faults - Cardinality(OpenTracked \ closed)
       /\ qty' = [v \in Venues |-> [s \in Symbols |->
                     IF <<v, s>> \in closed THEN 0 ELSE qty[v][s]]]
       /\ closing_in_progress' = TRUE
       /\ pc' = [pc EXCEPT ![t] = "close_wait"]
       /\ polls' = [polls EXCEPT ![t] = 0]
       /\ ex' = IF t = "scanner" THEN [ex EXCEPT !.flat = TRUE] ELSE ex
       /\ wlog' = IF t \in Symbols THEN [wlog EXCEPT ![t] = Append(@, "flatten")] ELSE wlog
       /\ wait_result' = IF t = "exit" THEN "none" ELSE wait_result
       /\ UNCHANGED <<matcher, window, feed, spread_call, attempts,
                      sharedVars, liquidation_watchers, terminate_bot, exitVars,
                      zero_cnt, seen_nonzero, wtarget, rd_seen, rd_zeros, scanHist>>

\* What the caller does with the return of close_all_and_wait (no caller looks at
\* the value returned) or with its exception.
\* The scanner: execute_case resets the counter and returns (1158, 1162, 1180);
\* after the handler's flatten (1545-1550) the counter is left as it is.
CountAfterAttempt(c, in_handler) == IF in_handler THEN c ELSE 0
\* The exit monitor goes on to its reset (ExitReset); the watcher sets
\* terminate_bot and leaves its loop (853-855 / 866-867), also from its handler.
\* A watcher whose handler leaves the loop without setting terminate_bot.
TerminateUnlessRaised(t, raised) == terminate_bot \/ (t \in Symbols /\ ~raised)
TerminateAfter(t, raised) == terminate_bot \/ t \in Symbols
AfterClose(t, raised) ==
    /\ pc' = [pc EXCEPT ![t] = IF t = "scanner" THEN "scan"
                               ELSE IF t = "exit" THEN "close_ret" ELSE "wexit"]
    /\ ex' = IF t = "scanner" THEN IdleEx ELSE ex
    /\ entry_confirm_count' =
          IF t = "scanner"
          THEN [entry_confirm_count EXCEPT ![ex.sym] = CountAfterAttempt(@, ex.handler)]
          ELSE entry_confirm_count
    /\ below_seen' = IF t = "scanner" /\ ~ex.handler
                     THEN [below_seen EXCEPT ![ex.sym] = FALSE] ELSE below_seen
    /\ obs_run' = IF t = "scanner" /\ ~ex.handler
                  THEN [obs_run EXCEPT ![ex.sym] = 0] ELSE obs_run
    /\ terminate_bot' = TerminateAfter(t, raised)
    /\ wlog' = IF t \in Symbols
              THEN [wlog EXCEPT ![t] = (IF raised THEN Append(@, "raised") ELSE @)
                                         \o (IF terminate_bot' THEN <<"terminate">> ELSE <<>>)]
              ELSE wlog

\* A wait loop that reports success when its window ends.
WaitResultSilent(open_now, last_poll) ==
    IF ~open_now \/ last_poll THEN "ok" ELSE "waiting"
\* Lines 564-578: True ("ok") when has_open_positions() returned False, False
\* ("timeout") when the window ended, otherwise the loop goes on.
WaitResult(open_now, last_poll) ==
    IF ~open_now THEN "ok" ELSE IF last_poll THEN "timeout" ELSE "waiting"

\* Lines 563-578: one pass of the wait loop; the flag is cleared on both ways out.
ClosePoll(t, fetch_fails) ==
    /\ pc[t] = "close_wait"
    /\ LET r == WaitResult(has_open_positions(fetch_fails), polls[t] + 1 >= MaxPolls)
       IN  IF r # "waiting"
           THEN /\ closing_in_progress' = FALSE
                /\ polls' = [polls EXCEPT ![t] = 0]
                /\ wait_result' = IF t = "exit" THEN r ELSE wait_result
                /\ AfterClose(t, FALSE)
           ELSE /\ polls' = [polls EXCEPT ![t] = @ + 1]
                /\ UNCHANGED <<closing_in_progress, pc, ex, entry_confirm_count,
                               scanHist, terminate_bot, wlog, wait_result>>
    /\ faults' = faults - Cost(fetch_fails)
    /\ UNCHANGED <<matcher, window, feed, spread_call, attempts,
                   positions, exit_confirm_count, entry_prices, entry_spreads,
                   TRADED_BINANCE_SYMBOLS, KUCOIN_CCXT_MAP, liquidation_watchers, qty,
                   exitVars, zero_cnt, seen_nonzero, wtarget, rd_seen, rd_zeros>>

\* close_all_and_wait raises (its callers at lines 850 and 1548 are written for
\* that): the flag stays set, and control goes to the caller's handler.  The
\* scanner's handler calls close_all_and_wait again and swallows a second
\* exception (1545-1550); the exit monitor's per-symbol handler goes on with the
\* loop (1387-1388); the watcher's handler goes on to terminate_bot (851-854).
\* An except clause that passes over the flatten of lines 1547-1548.
ExceptPcNoFlatten(t) == IF t = "scanner" THEN "scan" ELSE pc[t]
\* Lines 1545-1548 / 1587-1590: where the except clause around execute_caseA/B
\* takes the scanner, the call of close_all_and_wait.
ExceptPc(t) == IF t = "scanner" THEN "close_start" ELSE pc[t]
CloseRaise(t) ==
    /\ pc[t] = "close_wait"
    /\ faults > 0
    /\ faults' = faults - 1
    /\ polls' = [polls EXCEPT ![t] = 0]
    /\ IF t = "scanner" /\ ~ex.handler
       THEN /\ pc' = [pc EXCEPT ![t] = ExceptPc(t)]
            /\ ex' = [ex EXCEPT !.handler = TRUE]
            /\ UNCHANGED <<entry_confirm_count, scanHist, terminate_bot, wlog, exit_sym>>
       ELSE IF t = "exit"
       THEN /\ pc' = [pc EXCEPT ![t] = IF exit_todo = {} THEN "top" ELSE "iter"]
            /\ exit_sym' = "none"
            /\ UNCHANGED <<ex, entry_confirm_count, scanHist, terminate_bot, wlog>>
       ELSE /\ AfterClose(t, TRUE)
            /\ UNCHANGED exit_sym
    /\ UNCHANGED <<matcher, window, feed, spread_call, wait_result, attempts,
                   positions, exit_confirm_count, entry_prices, entry_spreads,
                   TRADED_BINANCE_SYMBOLS, KUCOIN_CCXT_MAP, liquidation_watchers,
                   closing_in_progress, qty, exit_todo, exit_run, zero_cnt, seen_nonzero,
                   wtarget, rd_seen, rd_zeros>>

-----------------------------------------------------------------------------
\* exit_monitor_loop.

\* Lines 1344-1356: captured >= PROFIT_TARGET or abs(current_exit_spread) < 0.02,
\* with current_exit_spread = 100*n2/d2 and entry_spreads[sym] = 100*n1/d1.
ExitCondition(s, q) ==
    LET n2 == IF positions[s] = "caseA" THEN q.ka - q.bb ELSE q.bb - q.ka
        d2 == IF positions[s] = "caseA" THEN entry_prices[s].binance
                                        ELSE entry_prices[s].kucoin
        n1 == entry_spreads[s][1]
        d1 == entry_spreads[s][2]
    IN  \/ (n1 * d2 - n2 * d1) * PCT >= PROFIT_TARGET * d1 * d2
        \/ Abs(n2) * PCT < EXIT_EPSILON * d2

\* Lines 1347 and 1351: current_entry_spread divides by bin_ask in case A and by
\* kc_ask in case B; with that price zero the division raises, and the handler of
\* line 1387 goes on to the next symbol.
ExitRaises(s, q) ==
    \/ positions[s] = "caseA" /\ q.ba = 0
    \/ positions[s] = "caseB" /\ q.ka = 0

\* Lines 1321-1323: the loop ends once terminate_bot is set.
ExitStop ==
    /\ pc["exit"] = "top"
    /\ terminate_bot
    /\ pc' = [pc EXCEPT !["exit"] = "dead"]
    /\ UNCHANGED <<matcher, window, feed, spread_call, wait_result, attempts,
                   sharedVars, liquidation_watchers, closing_in_progress,
                   terminate_bot, qty, faults, ex, exitVars, polls,
                   watcherVars, scanHist>>

\* The symbols the iteration has still to visit when it comes to its next one: at
\* the top of the loop a new iteration starts (terminate_bot is not set) over a
\* copy of TRADED_BINANCE_SYMBOLS (lines 1321-1331).
ExitPending ==
    IF pc["exit"] = "iter" THEN exit_todo
    ELSE IF pc["exit"] = "top" /\ ~terminate_bot THEN TRADED_BINANCE_SYMBOLS
    ELSE {}
ExitAfter(s) == IF ExitPending \ {s} = {} THEN "top" ELSE "iter"

\* Lines 1334-1341: the symbol has no position, or a price is missing.
ExitSkip(s, priced) ==
    /\ s \in ExitPending
    /\ positions[s] = "none" \/ ~priced
    /\ exit_todo' = ExitPending \ {s}
    /\ pc' = [pc EXCEPT !["exit"] = ExitAfter(s)]
    /\ UNCHANGED <<matcher, window, feed, spread_call, wait_result, attempts,
                   sharedVars, liquidation_watchers, closing_in_progress,
                   terminate_bot, qty, faults, ex, exit_sym, exit_run, polls,
                   watcherVars, scanHist>>

\* An exit counter that a poll with the condition false leaves as it is.
NextExitCountNoReset(c, cond) == IF cond THEN c + 1 ELSE c
\* Lines 1357-1358, 1385-1386: exit_confirm_count[sym] after a poll.
NextExitCount(c, cond) == IF cond THEN c + 1 ELSE 0

\* Lines 1342-1386: one poll of an open position.
ExitPoll(s, q) ==
    /\ s \in ExitPending
    /\ positions[s] # "none"
    /\ exit_todo' = ExitPending \ {s}
    /\ faults >= Cost(q \in ZeroQuotes)
    /\ faults' = faults - Cost(q \in ZeroQuotes)
    /\ IF ExitRaises(s, q)
       THEN /\ pc' = [pc EXCEPT !["exit"] = ExitAfter(s)]
            /\ UNCHANGED <<exit_confirm_count, exit_sym, exit_run>>
       ELSE /\ LET c == NextExitCount(exit_confirm_count[s], ExitCondition(s, q))
               IN  /\ c <= MaxCount
                   /\ exit_confirm_count' = [exit_confirm_count EXCEPT ![s] = c]
                   /\ IF ExitCondition(s, q) /\ c >= CONFIRMATIONS
                      THEN /\ pc' = [pc EXCEPT !["exit"] = "close_start"]
                           /\ exit_sym' = s
                      ELSE /\ pc' = [pc EXCEPT !["exit"] = ExitAfter(s)]
                           /\ UNCHANGED exit_sym
            /\ exit_run' = [exit_run EXCEPT ![s] = IF ExitCondition(s, q)
                                                    THEN Min(@ + 1, CONFIRMATIONS) ELSE 0]
    /\ UNCHANGED <<matcher, window, feed, spread_call, wait_result, attempts,
                   positions, entry_confirm_count, entry_prices, entry_spreads,
                   TRADED_BINANCE_SYMBOLS, KUCOIN_CCXT_MAP, liquidation_watchers,
                   closing_in_progress, terminate_bot, qty,
                   ex, polls, watcherVars, scanHist>>

\* Lines 1369-1382: after close_all_and_wait returned, whatever it returned.
ExitReset ==
    /\ pc["exit"] = "close_ret"
    /\ positions' = [positions EXCEPT ![exit_sym] = "none"]
    /\ entry_confirm_count' = [entry_confirm_count EXCEPT ![exit_sym] = 0]
    /\ below_seen' = [below_seen EXCEPT ![exit_sym] = FALSE]
    /\ obs_run' = [obs_run EXCEPT ![exit_sym] = 0]
    /\ exit_confirm_count' = [exit_confirm_count EXCEPT ![exit_sym] = 0]
    /\ TRADED_BINANCE_SYMBOLS' = TRADED_BINANCE_SYMBOLS \ {exit_sym}
    /\ KUCOIN_CCXT_MAP' = KUCOIN_CCXT_MAP \ {exit_sym}
    /\ entry_prices' = [entry_prices EXCEPT ![exit_sym] = NoPrices]
    /\ entry_spreads' = [entry_spreads EXCEPT ![exit_sym] = <<0, 1>>]
    /\ exit_sym' = "none"
    /\ exit_run' = [exit_run EXCEPT ![exit_sym] = 0]
    /\ wait_result' = "none"
    /\ pc' = [pc EXCEPT !["exit"] = IF exit_todo = {} THEN "top" ELSE "iter"]
    /\ UNCHANGED <<matcher, window, feed, spread_call, attempts,
                   liquidation_watchers, closing_in_progress, terminate_bot,
                   qty, faults, ex, exit_todo, polls, watcherVars>>

-----------------------------------------------------------------------------
\* _start_liquidation_watcher_for_symbol.monitor, the watcher thread of symbol s.

\* Lines 789-803: the locals and the first fetch (None counts as 0.0).
WInit(s, rb, rk) ==
    /\ pc[s] = "winit"
    /\ faults >= Cost(rb = "err" \/ rk = "err")
    /\ faults' = faults - Cost(rb = "err" \/ rk = "err")
    /\ zero_cnt' = [zero_cnt EXCEPT ![s] = [v \in Venues |-> 0]]
    /\ seen_nonzero' = [seen_nonzero EXCEPT ![s] = [binance |-> rb = "nonzero", kucoin |-> rk = "nonzero"]]
    /\ rd_seen' = [rd_seen EXCEPT ![s] = [binance |-> rb = "nonzero", kucoin |-> rk = "nonzero"]]
    /\ rd_zeros' = [rd_zeros EXCEPT ![s] = [v \in Venues |-> 0]]
    /\ wtarget' = [wtarget EXCEPT ![s] = "none"]
    /\ wlog' = [wlog EXCEPT ![s] = <<>>]
    /\ pc' = [pc EXCEPT ![s] = "wloop"]
    /\ UNCHANGED <<matcher, window, feed, spread_call, wait_result, attempts,
                   sharedVars, liquidation_watchers, closing_in_progress,
                   terminate_bot, qty, ex, exitVars, polls,
                   scanHist>>

\* Lines 828-840, for one leg: the flag and the counter after a reading r.
NextSeen(seen, r) == seen \/ r = "nonzero"
\* A counter that counts the zeros of a leg never seen non-zero.
NextZeroCntUnseen(seen, cnt, r) == IF r = "nonzero" THEN 0 ELSE cnt + 1
NextZeroCnt(seen, cnt, r) == IF r = "nonzero" THEN 0 ELSE IF seen THEN cnt + 1 ELSE cnt

\* The locals of a watcher thread that is not running.
WatcherOff(s) ==
    /\ zero_cnt' = [zero_cnt EXCEPT ![s] = [v \in Venues |-> 0]]
    /\ seen_nonzero' = [seen_nonzero EXCEPT ![s] = [v \in Venues |-> FALSE]]
    /\ wtarget' = [wtarget EXCEPT ![s] = "none"]
    /\ rd_seen' = [rd_seen EXCEPT ![s] = [v \in Venues |-> FALSE]]
    /\ rd_zeros' = [rd_zeros EXCEPT ![s] = [v \in Venues |-> 0]]
    /\ wlog' = [wlog EXCEPT ![s] = <<>>]
    /\ liquidation_watchers' = liquidation_watchers \ {s}
    /\ pc' = [pc EXCEPT ![s] = "off"]

\* Lines 844-867: the leg whose sustained zero is acted on (Binance is looked at
\* first), "none" when neither counter has reached WATCHER_DETECT_CONFIRM.
Detected(cnt) ==
    IF cnt["binance"] >= WATCHER_DETECT_CONFIRM THEN "binance"
    ELSE IF cnt["kucoin"] >= WATCHER_DETECT_CONFIRM THEN "kucoin"
    ELSE "none"

\* A watcher that takes a failed fetch for a reading of zero.
SkippedNever(rb, rk) == FALSE
\* Lines 820-823: cur_bin is None or cur_kc is None -- the pass ends here.
Skipped(rb, rk) == rb = "err" \/ rk = "err"

\* Lines 807-871: one pass of the watcher loop.  On detection the watcher calls
\* close_single_exchange_position on the other venue (847 / 860), which never
\* raises, and goes on to close_all_and_wait whatever it returned; closes says
\* whether the venue closed the leg.
WPoll(s, rb, rk, closes) ==
    /\ pc[s] = "wloop"
    /\ IF positions[s] = "none"
       THEN \* lines 809-813: the loop is left; the registry is written at 876
            /\ pc' = [pc EXCEPT ![s] = "wbreak"]
            /\ zero_cnt' = [zero_cnt EXCEPT ![s] = [v \in Venues |-> 0]]
            /\ UNCHANGED <<seen_nonzero, wtarget, rd_seen, rd_zeros, wlog,
                           liquidation_watchers, qty, faults>>
       ELSE IF closing_in_progress
       THEN /\ zero_cnt' = [zero_cnt EXCEPT ![s] = [v \in Venues |-> 0]]
            /\ UNCHANGED <<pc, seen_nonzero, wtarget, rd_seen, rd_zeros, wlog,
                           liquidation_watchers, qty, faults>>
       ELSE IF Skipped(rb, rk)
       THEN UNCHANGED <<zero_cnt, pc, seen_nonzero, wtarget, rd_seen, rd_zeros, wlog,
                        liquidation_watchers, qty, faults>>
       ELSE LET r == [binance |-> rb, kucoin |-> rk]
                cnt == [v \in Venues |->
                          NextZeroCnt(seen_nonzero[s][v], zero_cnt[s][v], r[v])]
                gone == Detected(cnt)
                tv == Other(gone)
            IN  /\ zero_cnt' = [zero_cnt EXCEPT ![s] = cnt]
                /\ seen_nonzero' = [seen_nonzero EXCEPT ![s] =
                                      [v \in Venues |-> NextSeen(seen_nonzero[s][v], r[v])]]
                /\ rd_seen' = [rd_seen EXCEPT ![s] =
                                 [v \in Venues |-> rd_seen[s][v] \/ r[v] = "nonzero"]]
                /\ rd_zeros' = [rd_zeros EXCEPT ![s] =
                                  [v \in Venues |->
                                     IF r[v] = "nonzero" THEN 0
                                     ELSE Min(rd_zeros[s][v] + 1, WATCHER_DETECT_CONFIRM)]]
                /\ UNCHANGED liquidation_watchers
                /\ IF gone = "none"
                   THEN UNCHANGED <<pc, wtarget, wlog, qty, faults>>
                   ELSE /\ pc' = [pc EXCEPT ![s] = "close_start"]
                        /\ wtarget' = [wtarget EXCEPT ![s] = tv]
                        /\ wlog' = [wlog EXCEPT ![s] = Append(@, "targeted")]
                        /\ IF closes \/ qty[tv][s] = 0
                           THEN /\ qty' = [qty EXCEPT ![tv][s] = 0]
                                /\ UNCHANGED faults
                           ELSE /\ faults > 0
                                /\ faults' = faults - 1
                                /\ UNCHANGED qty
    /\ UNCHANGED <<matcher, window, wait_result, attempts,
                   sharedVars, closing_in_progress, terminate_bot, ex,
                   exitVars, polls, scanHist>>

\* Lines 876-877: the watcher leaves the registry.
WExit(s) ==
    /\ pc[s] \in {"wexit", "wbreak"}
    /\ WatcherOff(s)
    /\ UNCHANGED <<matcher, window, feed, spread_call, wait_result, attempts,
                   sharedVars, closing_in_progress, terminate_bot, qty,
                   faults, ex, exitVars, polls, scanHist>>

-----------------------------------------------------------------------------
\* The venue liquidates (or otherwise closes) an open leg.
Liquidate(v, s) ==
    /\ qty[v][s] > 0
    /\ faults > 0
    /\ faults' = faults - 1
    /\ qty' = [qty EXCEPT ![v][s] = 0]
    /\ UNCHANGED <<matcher, window, feed, spread_call, wait_result, attempts,
                   sharedVars, liquidation_watchers, closing_in_progress,
                   terminate_bot, pc, ex, exitVars, polls, watcherVars, scanHist>>

Next ==
    \/ \E s \in Symbols, q \in ScanQuotes, f1, f2 \in FetchFails, resolved \in BOOLEAN :
          Observe(s, q, f1, f2, resolved) /\ UNCHANGED <<window, feed, spread_call>>
    \/ \E s \in Symbols : ObserveMissing(s)
    \/ \E v \in Venues : \E out \in OrderOutcomes(v, TriggerPrice(v)) : LegOrder(v, out)
    \/ \E v \in Venues : \E out \in OrderOutcomes(v, ex.res[v].price) : Decide(out)
    \/ \E t \in Threads, resp \in [OpenTracked -> CloseResponses] : CloseStart(t, resp)
    \/ \E t \in Threads, f \in FetchFails : ClosePoll(t, f)
    \/ \E t \in Threads : CloseRaise(t)
    \/ ExitStop
    \/ \E s \in Symbols, priced \in BOOLEAN : ExitSkip(s, priced)
    \/ \E s \in Symbols, q \in ExitQuotes : ExitPoll(s, q)
    \/ ExitReset
    \/ \E s \in Symbols :
          \E rb \in Readings("binance", s), rk \in Readings("kucoin", s) : WInit(s, rb, rk)
    \/ \E s \in Symbols, closes \in BOOLEAN :
          \E rb \in Readings("binance", s), rk \in Readings("kucoin", s) :
             WPoll(s, rb, rk, closes) /\ UNCHANGED <<feed, spread_call>>
    \/ \E s \in Symbols : WExit(s)
    \/ \E v \in Venues, s \in Symbols : Liquidate(v, s)

Spec == Init /\ [][Next]_vars

\* The threads of the program keep running: each of them takes the step it can
\* take (daemon threads under the interpreter's scheduler).  The venues' faults
\* are not forced, and there are at most MaxFaults of them, so that a venue
\* rejects only finitely many close orders.
ScannerStep ==
    \/ \E s \in Symbols, q \in ScanQuotes, f1, f2 \in FetchFails, resolved \in BOOLEAN :
          Observe(s, q, f1, f2, resolved) /\ UNCHANGED <<window, feed, spread_call>>
    \/ \E s \in Symbols : ObserveMissing(s)
    \/ \E v \in Venues : \E out \in OrderOutcomes(v, TriggerPrice(v)) : LegOrder(v, out)
    \/ \E v \in Venues : \E out \in OrderOutcomes(v, ex.res[v].price) : Decide(out)
    \/ \E resp \in [OpenTracked -> CloseResponses] : CloseStart("scanner", resp)
    \/ ClosePoll("scanner", FALSE)
ExitStep ==
    \/ ExitStop
    \/ \E s \in Symbols, priced \in BOOLEAN : ExitSkip(s, priced)
    \/ \E s \in Symbols, q \in ExitQuotes : ExitPoll(s, q)
    \/ ExitReset
    \/ \E resp \in [OpenTracked -> CloseResponses] : CloseStart("exit", resp)
    \/ ClosePoll("exit", FALSE)
WatcherStep(s) ==
    \/ \E rb \in Readings("binance", s), rk \in Readings("kucoin", s) : WInit(s, rb, rk)
    \/ \E rb \in Readings("binance", s), rk \in Readings("kucoin", s), closes \in BOOLEAN :
          WPoll(s, rb, rk, closes) /\ UNCHANGED <<feed, spread_call>>
    \/ WExit(s)
    \/ \E resp \in [OpenTracked -> CloseResponses] : CloseStart(s, resp)
    \/ ClosePoll(s, FALSE)
\* The behaviours of one entry attempt.
FairInit == Init /\ attempts = 1
FairSpec ==
    /\ FairInit
    /\ [][Next]_vars
    /\ WF_vars(ScannerStep)
    /\ WF_vars(ExitStep)
    /\ \A s \in Symbols : WF_vars(WatcherStep(s))

-----------------------------------------------------------------------------
\* match_base_exposure_per_exchange, applied to inputs of its own.
\* n is in dollars, prices are in cents, amounts and contracts in thousandths,
\* notionals in thousandths of a cent.

RECURSIVE Pow10(_)
Pow10(k) == IF k <= 0 THEN 1 ELSE 10 * Pow10(k - 1)
\* One step of an amount with `precision` decimals, in thousandths.
PrecisionStep(precision) == Pow10(3 - precision)

\* Line 683: Binance's contract size (contractSize is absent from its markets).
bin_contract_size == 1

\* Lines 700-727.  ref_price is the mean of the two prices, so target_base is
\* 200 * n / (bin_price + kc_price) units (the prices are positive: the branch of
\* lines 702-705 is not taken).
match_base_exposure_per_exchange(n, bin_price, kc_price, bin_prec, kc_prec, kc_contract_size) ==
    LET target_base == (n * 200000) \div (bin_price + kc_price)
        bin0 == round_down(target_base, PrecisionStep(bin_prec))
        kc0 == round_down(target_base \div kc_contract_size, PrecisionStep(kc_prec))
        \* lines 714-720: step_bin / bin_price is the contract size
        bin_base_amount ==
            IF bin0 <= 0
            THEN round_down(bin_contract_size * 1000, PrecisionStep(bin_prec))
            ELSE bin0
        \* lines 721-727: step_kc / kc_contract_size is the price
        kc_contracts ==
            IF kc0 <= 0 THEN round_down(kc_price * 10, PrecisionStep(kc_prec)) ELSE kc0
    IN  [notional_bin |-> bin_base_amount * bin_price,
         notional_kc |-> kc_contracts * kc_contract_size * kc_price,
         bin_base_amount |-> bin_base_amount,
         kc_contracts |-> kc_contracts]

\* The inputs the function is applied to.
MatchTargets == {10, 100}
MatchPrices == {998, 1000, 1002}
MatchBinPrecisions == {0, 3}
MatchContractSizes == {1, 5}
MatchInputs ==
    {[NoMatch EXCEPT !.n = n, !.bin_price = bp, !.kc_price = kp, !.bin_prec = prec,
                     !.kc_contract_size = cs] :
        n \in MatchTargets, bp \in MatchPrices, kp \in MatchPrices,
        prec \in MatchBinPrecisions, cs \in MatchContractSizes}

Match ==
    /\ ~matcher.done
    /\ LET r == match_base_exposure_per_exchange(matcher.n, matcher.bin_price,
                     matcher.kc_price, matcher.bin_prec, matcher.kc_prec,
                     matcher.kc_contract_size)
       IN  matcher' = [matcher EXCEPT !.done = TRUE,
                                      !.notional_bin = r.notional_bin,
                                      !.notional_kc = r.notional_kc,
                                      !.bin_base_amount = r.bin_base_amount,
                                      !.kc_contracts = r.kc_contracts]
    /\ UNCHANGED <<sharedVars, liquidation_watchers, closing_in_progress, terminate_bot,
                   qty, faults, attempts, pc, ex, exitVars, polls, watcherVars,
                   scanHist, wait_result, window, feed, spread_call>>

MatcherInit ==
    ModuleState /\ attempts = 1 /\ matcher \in MatchInputs /\ window = NoWindow /\ feed = NoFeed
                /\ spread_call = NoSpreadCall
MatcherNext == Match
MatcherSpec == MatcherInit /\ [][MatcherNext]_vars

-----------------------------------------------------------------------------
\* One monitoring window of a candidate: the scanner's evaluation (Observe) applied
\* to the observations the window brings, one after the other. The candidate stays
\* on the shortlist of the window until an entry of it is executed (line 1552).

MaxWindow == 4
WindowQuotes == {QuoteA, QuoteALow, QuoteB, QuoteN}
RECURSIVE WindowSeqs(_)
WindowSeqs(n) ==
    IF n = 0 THEN {<<>>}
    ELSE LET shorter == WindowSeqs(n - 1)
         IN  shorter \cup {Append(o, q) : o \in {x \in shorter : Len(x) = n - 1},
                                           q \in WindowQuotes}
WindowInputs ==
    {[NoWindow EXCEPT !.obs = o] : o \in WindowSeqs(MaxWindow) \ {<<>>}}

\* Lines 1497-1509 compare the spread with ENTRY_SPREAD only; the scanner has no
\* second, lower threshold. An observation with neither side crossed (the branch
\* of lines 1506-1509) is below every threshold a spread could be held against.
AbortObservation(q) == TriggerCase(q) = "none"

\* The consecutive qualifying observations in one direction that end with q, given
\* that run of them in direction dir came before.
DirectionRun(dir, run, q) ==
    IF ~Qualifies(q) THEN 0
    ELSE IF TriggerCase(q) = dir THEN Min(run + 1, CONFIRMATIONS) ELSE 1

WindowObserve ==
    /\ window.obs # <<>>
    /\ Observe(FirstSymbol, Head(window.obs), FALSE, FALSE, TRUE)
    /\ UNCHANGED <<feed, spread_call>>
    /\ LET q == Head(window.obs)
       IN  window' = [obs |-> Tail(window.obs),
                      low |-> window.low \/ AbortObservation(q),
                      dir |-> TriggerCase(q),
                      run |-> DirectionRun(window.dir, window.run, q)]

WindowInit ==
    ModuleState /\ attempts = 1 /\ matcher = NoMatch /\ window \in WindowInputs /\ feed = NoFeed
                /\ spread_call = NoSpreadCall
WindowNext == WindowObserve
WindowSpec == WindowInit /\ [][WindowNext]_vars

-----------------------------------------------------------------------------
\* One watcher followed fetch by fetch: the position of FirstSymbol is open, its
\* watcher has read both legs non-zero (lines 789-803) and is in its loop; the feed
\* says for every pass to come which of the two fetches return None.

MaxFeed == 4
RECURSIVE FeedSeqs(_)
FeedSeqs(n) ==
    IF n = 0 THEN {<<>>}
    ELSE LET shorter == FeedSeqs(n - 1)
         IN  shorter \cup {Append(o, e) : o \in {x \in shorter : Len(x) = n - 1},
                                           e \in BOOLEAN \X BOOLEAN}
FeedInputs == {[NoFeed EXCEPT !.errs = o] : o \in FeedSeqs(MaxFeed) \ {<<>>}}

\* _fetch_signed_binance / _fetch_signed_kucoin (749-778): None when the fetch
\* raised, else the amount the venue holds.
FetchSigned(v, s, fails) ==
    IF fails THEN "err" ELSE IF qty[v][s] > 0 THEN "nonzero" ELSE "zero"

FeedPoll ==
    /\ feed.errs # <<>>
    /\ LET e == Head(feed.errs)
           s == FirstSymbol
       IN  /\ WPoll(s, FetchSigned("binance", s, e[1]), FetchSigned("kucoin", s, e[2]), TRUE)
           /\ UNCHANGED spread_call
           /\ feed' = [errs |-> Tail(feed.errs),
                       held |-> \/ feed.held
                                \/ /\ e[1] \/ e[2]
                                   /\ \E v \in Venues : zero_cnt[s][v] > 0]

FeedInit ==
    /\ positions = [s \in Symbols |-> IF s = FirstSymbol THEN "caseA" ELSE "none"]
    /\ entry_confirm_count = [s \in Symbols |-> 0]
    /\ exit_confirm_count = [s \in Symbols |-> 0]
    /\ entry_prices = [s \in Symbols |->
                          IF s = FirstSymbol THEN [binance |-> QuoteA.ba, kucoin |-> QuoteA.kb]
                          ELSE NoPrices]
    /\ entry_spreads = [s \in Symbols |->
                           IF s = FirstSymbol
                           THEN real_entry_spread("caseA", QuoteA.ba, QuoteA.kb)
                           ELSE <<0, 1>>]
    /\ TRADED_BINANCE_SYMBOLS = {FirstSymbol}
    /\ KUCOIN_CCXT_MAP = {FirstSymbol}
    /\ liquidation_watchers = {FirstSymbol}
    /\ closing_in_progress = FALSE
    /\ terminate_bot = FALSE
    /\ qty = [v \in Venues |-> [s \in Symbols |-> IF s = FirstSymbol THEN 1 ELSE 0]]
    /\ attempts = 0
    /\ faults = MaxFaults
    /\ pc = [t \in Threads |-> IF t = "scanner" THEN "scan"
                                ELSE IF t = "exit" THEN "top"
                                ELSE IF t = FirstSymbol THEN "wloop" ELSE "off"]
    /\ ex = IdleEx
    /\ exit_todo = {}
    /\ exit_sym = "none"
    /\ polls = [t \in Threads |-> 0]
    /\ zero_cnt = [s \in Symbols |-> [v \in Venues |-> 0]]
    /\ seen_nonzero = [s \in Symbols |-> [v \in Venues |-> s = FirstSymbol]]
    /\ wtarget = [s \in Symbols |-> "none"]
    /\ obs_run = [s \in Symbols |-> 0]
    /\ below_seen = [s \in Symbols |-> FALSE]
    /\ rd_seen = [s \in Symbols |-> [v \in Venues |-> s = FirstSymbol]]
    /\ rd_zeros = [s \in Symbols |-> [v \in Venues |-> 0]]
    /\ wlog = [s \in Symbols |-> <<>>]
    /\ exit_run = [s \in Symbols |-> 0]
    /\ wait_result = "none"
    /\ matcher = NoMatch
    /\ window = NoWindow
    /\ feed \in FeedInputs
    /\ spread_call = NoSpreadCall
FeedNext ==
    \/ FeedPoll
    \/ \E v \in Venues : Liquidate(v, FirstSymbol)
FeedSpec == FeedInit /\ [][FeedNext]_vars

-----------------------------------------------------------------------------
\* calculate_spread, applied to inputs of its own. Prices are in cents; a spread is
\* kept exact as <<direction, num, den>> for 100*num/den percent.

\* Lines 1030-1043: None (<<"none", 0, 1>>) when an input is falsy or a Binance price
\* is not positive; else pos when pos > 0.01, else neg when neg < -0.01, else None.
calculate_spread(bin_bid, bin_ask, ku_bid, ku_ask) ==
    IF bin_bid = 0 \/ bin_ask = 0 \/ ku_bid = 0 \/ ku_ask = 0 \/ bin_ask <= 0 \/ bin_bid <= 0
    THEN <<"none", 0, 1>>
    ELSE IF (ku_bid - bin_ask) * 10000 > bin_ask THEN <<"pos", ku_bid - bin_ask, bin_ask>>
    ELSE IF (ku_ask - bin_bid) * 10000 < 0 - bin_bid THEN <<"neg", ku_ask - bin_bid, bin_bid>>
    ELSE <<"none", 0, 1>>

\* The inputs the function is applied to: negative, zero and positive prices, books
\* in either order.
SpreadPrices == {0 - 100, 0, 100, 101, 110}
SpreadInputs ==
    {[NoSpreadCall EXCEPT !.bin_bid = bb, !.bin_ask = ba, !.ku_bid = kb, !.ku_ask = ka] :
        bb \in SpreadPrices, ba \in SpreadPrices, kb \in SpreadPrices, ka \in SpreadPrices}

SpreadCall ==
    /\ ~spread_call.done
    /\ spread_call' = [spread_call EXCEPT
                          !.done = TRUE,
                          !.result = calculate_spread(spread_call.bin_bid, spread_call.bin_ask,
                                                      spread_call.ku_bid, spread_call.ku_ask)]
    /\ UNCHANGED <<sharedVars, liquidation_watchers, closing_in_progress, terminate_bot,
                   qty, faults, attempts, pc, ex, exitVars, polls, watcherVars,
                   scanHist, wait_result, window, feed, matcher>>

SpreadInit ==
    ModuleState /\ attempts = 1 /\ matcher = NoMatch /\ window = NoWindow /\ feed = NoFeed
                /\ spread_call \in SpreadInputs
SpreadNext == SpreadCall
SpreadSpec == SpreadInit /\ [][SpreadNext]_vars

-----------------------------------------------------------------------------
\* Properties.

Open == {s \in Symbols : positions[s] # "none"}
ScannerInAttempt == pc["scanner"] # "scan"
AttemptLegs == <<ex.res["binance"], ex.res["kucoin"]>>

\* C1: at every moment at most one symbol has an open position.
C1_AtMostOnePosition == Cardinality(Open) <= 1

\* C2: the scanner dispatches an entry only after three consecutive qualifying
\* observations of the symbol since its counter was last reset or last fired.
C2_FiresAfterThree == pc["scanner"] = "dispatch" => ex.obs >= CONFIRMATIONS

\* C3: while the scanner is in an entry attempt (it is placing or has placed
\* orders), no observation below the threshold has been made of the symbol since
\* its counter was last reset.
C3_NoOrderAfterAbort == ScannerInAttempt => ~below_seen[ex.sym]
C3_Witness ==
    /\ pc["scanner"] = "dispatch"
    /\ ex.res["binance"].filled
    /\ ex.obs >= CONFIRMATIONS
    /\ ~below_seen[ex.sym]

\* C4: an attempt in which a leg failed or returned no executed price goes to
\* close_all_and_wait and nowhere else, the scanner is back in its loop only
\* after close_all_and_wait was invoked, and no position is recorded.
C4_FailedLegFlattens ==
    [][(ScannerInAttempt /\ ~LegsFilled(AttemptLegs[1], AttemptLegs[2])
          /\ \A v \in Venues : ex.res[v].done)
       => /\ positions'[ex.sym] = "none"
          /\ pc["scanner"] = "dispatch" => pc'["scanner"] \in {"dispatch", "close_start"}
          /\ pc'["scanner"] = "scan" => ex.flat]_vars
C4_Witness ==
    /\ pc["scanner"] = "close_wait"
    /\ ex.flat
    /\ ex.res["binance"].filled
    /\ ~ex.res["kucoin"].ok
    /\ positions[ex.sym] = "none"

\* C5: under fair scheduling, once the scanner has gone to flatten an aborted
\* entry of a symbol, both venues eventually report no quantity for it.
C5_AbortedEntryFlat ==
    \A s \in Symbols :
       (pc["scanner"] = "close_start" /\ ex.sym = s)
          ~> (qty["binance"][s] = 0 /\ qty["kucoin"][s] = 0)

\* C6: a position is recorded only by the step of the entry attempt in which
\* both legs returned ok with an executed price, and that step writes the
\* symbol's entry_prices and entry_spreads.
C6_PositionOnlyAfterBothLegs ==
    [][\A s \in Symbols :
         (positions'[s] # positions[s] /\ positions'[s] # "none")
         => /\ pc["scanner"] = "dispatch" /\ ex.sym = s
            /\ \A v \in Venues : ex.res[v].done /\ ex.res[v].ok /\ ex.res[v].price # 0
            /\ positions'[s] = ex.case
            /\ entry_prices'[s] = [v \in Venues |-> ex.res[v].price]
            /\ entry_spreads'[s] = real_entry_spread(ex.case, ex.res["binance"].price,
                                                     ex.res["kucoin"].price)]_vars
C6_Witness ==
    \E s \in Open :
       /\ pc[s] = "winit"
       /\ entry_prices[s]["binance"] # 0 /\ entry_prices[s]["kucoin"] # 0
       /\ entry_spreads[s] = real_entry_spread(positions[s], entry_prices[s]["binance"],
                                               entry_prices[s]["kucoin"])

\* The implied notionals of the two legs of an open position.
LegNotionals(s) == <<Implied("binance", entry_prices[s]["binance"]),
                     Implied("kucoin", entry_prices[s]["kucoin"])>>
LegGap(s) == Abs(LegNotionals(s)[1] - LegNotionals(s)[2])

\* C7 as stated: the notionals of the legs of an open position differ by no
\* more than MAX_NOTIONAL_MISMATCH_PCT.
C7_WithinTolerance ==
    \A s \in Open : MismatchWithin(LegNotionals(s)[1], LegNotionals(s)[2])
\* C7: the notionals of the legs of an open position differ by no more than
\* MAX_NOTIONAL_MISMATCH_PCT, or by less than REBALANCE_MIN_DOLLARS.
C7_WithinToleranceOrDust ==
    \A s \in Open :
       \/ MismatchWithin(LegNotionals(s)[1], LegNotionals(s)[2])
       \/ LegGap(s) < REBALANCE_MIN_DOLLARS
C7_Witness ==
    \E s \in Open :
       /\ ~MismatchWithin(LegNotionals(s)[1], LegNotionals(s)[2])
       /\ LegGap(s) < REBALANCE_MIN_DOLLARS
       /\ qty["binance"][s] > 0 /\ qty["kucoin"][s] > 0

\* C8: a watcher acts on a leg only when it has read that leg non-zero and has
\* since read it zero WATCHER_DETECT_CONFIRM times with no non-zero reading in
\* between (a reading is a poll in which both fetches returned).
C8_TriggerAfterSeenAndZeros ==
    \A s \in Symbols :
       wtarget[s] # "none"
       => /\ rd_seen[s][Other(wtarget[s])]
          /\ rd_zeros[s][Other(wtarget[s])] >= WATCHER_DETECT_CONFIRM
\* The KuCoin leg triggered; the Binance leg, looked at first, was read zero as
\* often and did not, never having been read non-zero.
C8_Witness ==
    \E s \in Symbols :
       /\ wtarget[s] = "binance"
       /\ ~rd_seen[s]["binance"]
       /\ rd_zeros[s]["binance"] >= WATCHER_DETECT_CONFIRM

\* C9: once terminate_bot is set the scanner dispatches no entry.
C9_NoDispatchAfterTerminate ==
    [][terminate_bot => ~(pc["scanner"] = "scan" /\ pc'["scanner"] = "dispatch")]_vars

\* C10: a watcher that detected a sustained zero closes the other venue's leg,
\* then calls close_all_and_wait, then sets terminate_bot, and it sets it also
\* when close_all_and_wait raised; nothing else sets terminate_bot.
WatcherLogs ==
    {<<>>, <<"targeted">>, <<"targeted", "flatten">>,
     <<"targeted", "flatten", "terminate">>,
     <<"targeted", "flatten", "raised", "terminate">>}
C10_WatcherOrder ==
    /\ [](\A s \in Symbols :
            /\ wlog[s] \in WatcherLogs
            /\ wlog[s] # <<>>
               => /\ wtarget[s] # "none"
                  /\ zero_cnt[s][Other(wtarget[s])] >= WATCHER_DETECT_CONFIRM
                  /\ pc[s] \in {"close_start", "close_wait", "wexit"}
            /\ pc[s] = "wexit"
               => terminate_bot /\ wlog[s] # <<>> /\ wlog[s][Len(wlog[s])] = "terminate")
    /\ [][(terminate_bot' /\ ~terminate_bot)
            => \E s \in Symbols : /\ pc[s] = "close_wait" /\ pc'[s] = "wexit"
                                   /\ wlog'[s] # wlog[s]]_vars
\* terminate_bot was set by the handler of the watcher.
C10_Witness ==
    \E s \in Symbols :
       /\ pc[s] = "wexit"
       /\ terminate_bot
       /\ wlog[s] = <<"targeted", "flatten", "raised", "terminate">>

\* C11: the exit monitor calls close_all_and_wait for a symbol only after the
\* exit condition was true on three consecutive polls of that symbol, and a poll
\* on which the condition is false sets exit_confirm_count[sym] to 0.
C11_ExitDebounced ==
    /\ [](pc["exit"] \in {"close_start", "close_wait", "close_ret"}
            => /\ exit_sym \in Symbols
               /\ exit_run[exit_sym] >= CONFIRMATIONS)
    /\ [](\A s \in Symbols : exit_confirm_count[s] > 0 => exit_run[s] > 0)
    /\ [][\A s \in Symbols, q \in ExitQuotes :
            (ExitPoll(s, q) /\ ~ExitRaises(s, q) /\ ~ExitCondition(s, q))
               => exit_confirm_count'[s] = 0]_vars
\* The exit fired on the third poll in a row with the condition true.
C11_Witness ==
    /\ pc["exit"] = "close_start"
    /\ exit_sym \in Symbols
    /\ exit_run[exit_sym] = CONFIRMATIONS
    /\ exit_confirm_count[exit_sym] = CONFIRMATIONS

\* C12: the entry basis recorded for a position, entry_spreads[sym], never
\* exceeds the trigger spread the scanner observed: when the spread realized by
\* the fills is larger, the trigger spread is recorded.
C12_BasisAtMostTrigger ==
    [][(pc["scanner"] = "dispatch" /\ pc'["scanner"] = "scan")
         => SpreadGE(trigger_entry_spread(ex.case, ex.bin_px, ex.kc_px),
                     entry_spreads'[ex.sym])]_vars

\* C13: a poll of the exit monitor on which a venue's bid/ask is zero is no
\* observation: exit_confirm_count[sym] does not advance and no exit fires.
C13_ZeroPriceNoObservation ==
    [][\A s \in Symbols, q \in ZeroQuotes :
          ExitPoll(s, q) => /\ exit_confirm_count'[s] = exit_confirm_count[s]
                            /\ pc'["exit"] # "close_start"]_vars

\* C14: the exit monitor resets a position's record only after
\* close_all_and_wait confirmed that no position is open; after a flatten that
\* timed out the record is left as it is.
C14_ResetOnlyAfterConfirmedFlat ==
    [][\A s \in Symbols :
          (pc["exit"] = "close_ret" /\ positions[s] # "none" /\ positions'[s] = "none")
             => wait_result = "ok"]_vars

\* C15: a normal exit never looks like a liquidation: as long as the venues have
\* produced no fault (no liquidation among them), the zero quantities left by the
\* system's own close drive no watcher to its detection branch.
C15_ExitIsNoLiquidation ==
    faults = MaxFaults
       => /\ \A s \in Symbols : wtarget[s] = "none" /\ wlog[s] = <<>>
          /\ ~terminate_bot

\* C16: the wait of close_all_and_wait is bounded and never silently succeeds:
\* it returns within MaxPolls polls, it returns True only from a poll on which
\* has_open_positions() found nothing open, and it returns False when the last
\* poll of the window, like every poll before it, reported an open position.
C16_WaitBoundedAndHonest ==
    /\ [](\A t \in Threads : polls[t] < MaxPolls /\ (pc[t] # "close_wait" => polls[t] = 0))
    /\ [](wait_result # "none" => pc["exit"] = "close_ret")
    /\ [][\A f \in FetchFails :
            ClosePoll("exit", f)
               => /\ wait_result' = "ok" <=> ~has_open_positions(f)
                  /\ wait_result' = "timeout"
                        <=> (has_open_positions(f) /\ polls["exit"] + 1 = MaxPolls)
                  /\ pc'["exit"] = "close_wait"
                        <=> (has_open_positions(f) /\ polls["exit"] + 1 < MaxPolls)]_vars
\* The wait of the exit monitor's flatten timed out with a leg still open.
C16_Witness ==
    /\ wait_result = "timeout"
    /\ pc["exit"] = "close_ret"
    /\ OpenTracked # {}

\* C17: when the quantity computed for either leg floors to zero, the entry is
\* aborted with no market order placed on either venue.
C17_ZeroQuantityNoOrder ==
    (/\ pc["scanner"] = "dispatch"
     /\ \E v \in Venues : compute_amount_for_notional(v, NOTIONAL, TriggerPrice(v)).amt = 0)
       => \A v \in Venues : ~ex.res[v].filled

\* C18: match_base_exposure_per_exchange rounds down only: for every target n,
\* positive prices, precision and contract size neither notional it produces
\* exceeds n; for n = 100, Binance precision 3 at 10.00 and KuCoin contract size 5
\* at 9.98 the two notionals are within 0.50 of each other and both at most 100.
C18_MatcherFloorOnly ==
    matcher.done
       => /\ matcher.notional_bin <= matcher.n * 100000
          /\ matcher.notional_kc <= matcher.n * 100000
          /\ (/\ matcher.n = 100 /\ matcher.bin_prec = 3 /\ matcher.bin_price = 1000
              /\ matcher.kc_contract_size = 5 /\ matcher.kc_price = 998)
                => Abs(matcher.notional_bin - matcher.notional_kc) <= 50000

\* C19: a qualifying observation of a symbol made while another symbol's position
\* is open (recorded, with both legs open on the venues) or while a close is in
\* progress does not advance the symbol's counter: the counter is reset to 0, so
\* that an entry after the position has closed needs three fresh observations.
C19_SecondOpportunityDropped ==
    [][\A s \in Symbols, q \in ScanQuotes, f1, f2 \in BOOLEAN, resolved \in BOOLEAN :
          (/\ Observe(s, q, f1, f2, resolved)
           /\ Qualifies(q)
           /\ \/ closing_in_progress
              \/ \E o \in Open \ {s} : \A v \in Venues : <<v, o>> \in OpenTracked)
             => entry_confirm_count'[s] = 0]_vars

\* Lines 1122-1127 with 642-644: the amount of the rebalance order, for the dollar
\* gap on the venue with the smaller implied notional at that leg's executed price.
RebalanceAmount(rb, rk) ==
    LET ib == Implied("binance", rb.price)
        ik == Implied("kucoin", rk.price)
        rv == RebalanceVenue(ib, ik)
    IN  compute_amount_for_notional(rv, Abs(ib - ik),
                                    IF rv = "binance" THEN rb.price ELSE rk.price).amt

\* C20: when both legs filled with a mismatch above tolerance and a gap of at
\* least REBALANCE_MIN_DOLLARS, one more order for the gap is placed on the
\* under-sized leg; the position is accepted when that order brings the mismatch
\* within tolerance.
C20_RebalanceOrderPlaced ==
    (/\ pc["scanner"] = "dispatch"
     /\ \A v \in Venues : ex.res[v].done
     /\ LegsFilled(ex.res["binance"], ex.res["kucoin"])
     /\ ~MismatchWithin(Implied("binance", ex.res["binance"].price),
                        Implied("kucoin", ex.res["kucoin"].price))
     /\ Abs(Implied("binance", ex.res["binance"].price)
            - Implied("kucoin", ex.res["kucoin"].price)) >= REBALANCE_MIN_DOLLARS)
       => /\ RebalanceAmount(ex.res["binance"], ex.res["kucoin"]) > 0
          /\ \E v \in Venues : \E out \in OrderOutcomes(v, ex.res[v].price) :
                Decision(ex.res["binance"], ex.res["kucoin"], out) = "accept"

\* C21: when both legs filled, a mismatch of at most MAX_NOTIONAL_MISMATCH_PCT
\* (equality included) accepts the position with no rebalance order, and a
\* mismatch above it places a rebalance order for the computed gap (read here
\* for gaps of at least REBALANCE_MIN_DOLLARS only; smaller gaps are C22's).
C21_AcceptBoundary ==
    (/\ pc["scanner"] = "dispatch"
     /\ \A v \in Venues : ex.res[v].done
     /\ LegsFilled(ex.res["binance"], ex.res["kucoin"]))
       => IF MismatchWithin(Implied("binance", ex.res["binance"].price),
                            Implied("kucoin", ex.res["kucoin"].price))
          THEN \A v \in Venues : \A out \in OrderOutcomes(v, ex.res[v].price) :
                  Decision(ex.res["binance"], ex.res["kucoin"], out) = "accept"
          ELSE Abs(Implied("binance", ex.res["binance"].price)
                   - Implied("kucoin", ex.res["kucoin"].price)) >= REBALANCE_MIN_DOLLARS
                  => RebalanceAmount(ex.res["binance"], ex.res["kucoin"]) > 0

\* The legs of the attempt filled with a mismatch above tolerance and a gap below
\* REBALANCE_MIN_DOLLARS.
AttemptIsDust ==
    /\ pc["scanner"] = "dispatch"
    /\ \A v \in Venues : ex.res[v].done
    /\ LegsFilled(ex.res["binance"], ex.res["kucoin"])
    /\ ~MismatchWithin(Implied("binance", ex.res["binance"].price),
                       Implied("kucoin", ex.res["kucoin"].price))
    /\ Abs(Implied("binance", ex.res["binance"].price)
           - Implied("kucoin", ex.res["kucoin"].price)) < REBALANCE_MIN_DOLLARS

C23_MissingPriceResets ==
    [][\A s \in Symbols : ObserveMissing(s) => entry_confirm_count'[s] = 0]_vars


\* C24: inside close_all_and_wait every close order a venue fails is followed by a
\* second order of the fallback form on the same venue, on both venues and for every
\* kind of error.
C24_FailedCloseRetried ==
    [][\A t \in Threads : \A resp \in [OpenTracked -> CloseResponses] :
          CloseStart(t, resp)
              => \A l \in OpenTracked :
                     resp[l][1] # "ok" => Len(CloseOrders(l[1], resp[l][1])) = 2]_vars


C26_ClosingEndsIdle ==
    [][/\ ExitReset => positions'[exit_sym] = "none"
       /\ \A s \in Symbols :
              (pc[s] \in {"close_wait", "close_start"} /\ pc'[s] = "wexit")
                  => positions'[s] = "none"]_vars


\* C27: in every state with positions[sym] set and no close in progress a watcher
\* thread of the symbol is alive (started in the step that set the position at the
\* latest), also when a watcher of an earlier position of the symbol is on its way out.
C27_OpenHasWatcher ==
    \A s \in Symbols :
        (positions[s] # "none" /\ ~closing_in_progress)
            => pc[s] \notin {"off", "wbreak", "wexit"}


\* C28: once an abort observation was made in a window, no entry of the symbol is
\* dispatched in that window, whatever observations follow.
C28_AbortCancelsWindow == pc["scanner"] = "dispatch" => ~window.low


\* C29: an entry is dispatched in a direction only after three consecutive
\* qualifying observations in that direction; observations in the opposite
\* direction do not count towards it.
C29_DirectionSpecific ==
    pc["scanner"] = "dispatch"
        => window.dir = ex.case /\ window.run >= CONFIRMATIONS


\* C30: the two leg orders run side by side and in either order: the step in which
\* one leg's result arrives leaves the attempt undecided and the other result
\* untouched; the attempt is decided, and positions[sym] written, only by a step
\* taken when both dispatches have returned.
C30_JoinBeforeDecision ==
    [][pc["scanner"] = "dispatch"
          => /\ \A v \in Venues :
                   (~ex.res[v].done /\ ex'.res[v].done)
                       => /\ pc'["scanner"] = "dispatch"
                          /\ ex'.res[Other(v)] = ex.res[Other(v)]
                          /\ positions'[ex.sym] = positions[ex.sym]
             /\ (pc'["scanner"] # "dispatch" \/ positions'[ex.sym] # positions[ex.sym])
                   => \A v \in Venues : ex.res[v].done]_vars

\* The Binance thread, started second, has returned with a fill while the KuCoin
\* order is still out.
C30_Witness ==
    /\ pc["scanner"] = "dispatch"
    /\ ex.res["binance"].done /\ ex.res["binance"].filled
    /\ ~ex.res["kucoin"].done
    /\ positions[ex.sym] = "none"


\* C31: a pass of the watcher in which a fetch of either venue returned None changes
\* neither leg's zero counter nor its seen-non-zero flag and detects nothing.
C31_FetchErrorSkipped ==
    [][(feed.errs # <<>> /\ feed'.errs # feed.errs
           /\ (Head(feed.errs)[1] \/ Head(feed.errs)[2]))
          => /\ zero_cnt' = zero_cnt
             /\ seen_nonzero' = seen_nonzero
             /\ wtarget' = wtarget
             /\ pc' = pc
             /\ qty' = qty]_vars

\* A fetch failed while a leg's zero counter stood at 1, and the counter is still 1.
C31_Witness ==
    /\ feed.held
    /\ pc[FirstSymbol] = "wloop"
    /\ \E v \in Venues : zero_cnt[FirstSymbol][v] = 1 /\ qty[v][FirstSymbol] = 0


\* C32: once both legs of an attempt have returned, execute_case hands at most one
\* rebalance order to safe_create_order; it goes to the venue whose leg has the
\* smaller implied notional and has the side of that leg's entry order.
C32_RebalanceLegAndSide ==
    (ScannerInAttempt /\ \A v \in Venues : ex.res[v].done)
        => LET reqs == RebalanceRequests(ex.case, ex.res["binance"], ex.res["kucoin"])
           IN  /\ Len(reqs) <= 1
               /\ \A i \in DOMAIN reqs :
                     /\ Implied(reqs[i].venue, ex.res[reqs[i].venue].price)
                           < Implied(Other(reqs[i].venue), ex.res[Other(reqs[i].venue)].price)
                     /\ reqs[i].side = EntrySide(ex.case, reqs[i].venue)
                     /\ reqs[i].notional
                           = Abs(Implied("binance", ex.res["binance"].price)
                                 - Implied("kucoin", ex.res["kucoin"].price))

\* The rebalance branch was taken for a case B attempt: a buy on KuCoin for the gap.
C32_Witness ==
    /\ pc["scanner"] = "close_start"
    /\ ~ex.handler
    /\ ex.case = "caseB"
    /\ RebalanceRequests(ex.case, ex.res["binance"], ex.res["kucoin"])
          = <<[venue |-> "kucoin", side |-> "buy",
               notional |-> Abs(Implied("binance", ex.res["binance"].price)
                                - Implied("kucoin", ex.res["kucoin"].price))]>>


\* Lines 706-713: the target base amount floored to the precision of each venue,
\* before lines 714-727 look at it.
MatcherFloors ==
    LET target_base == (matcher.n * 200000) \div (matcher.bin_price + matcher.kc_price)
    IN  [bin |-> round_down(target_base, PrecisionStep(matcher.bin_prec)),
         kc |-> round_down(target_base \div matcher.kc_contract_size,
                           PrecisionStep(matcher.kc_prec))]

\* C33: when flooring the target base amount to a venue's precision gives zero,
\* match_base_exposure_per_exchange returns no positive quantity for that venue.
C33_MatcherFailsOnZero ==
    matcher.done
       => /\ MatcherFloors.bin <= 0 => matcher.bin_base_amount <= 0
          /\ MatcherFloors.kc <= 0 => matcher.kc_contracts <= 0


\* C34: calculate_spread returns None whenever one of its four prices is not
\* positive; with four positive prices, when a direction crosses the minimum, it
\* returns the crossing spread, and the one of larger magnitude when both cross.
C34_SpreadEvaluator ==
    spread_call.done
       => LET c == spread_call
              r == c.result
              pos_crosses == (c.ku_bid - c.bin_ask) * 10000 > c.bin_ask
              neg_crosses == (c.ku_ask - c.bin_bid) * 10000 < 0 - c.bin_bid
              \* |pos| >= |neg| and |neg| >= |pos|, cross-multiplied
              pos_larger == Abs(c.ku_bid - c.bin_ask) * c.bin_bid
                               >= Abs(c.ku_ask - c.bin_bid) * c.bin_ask
              neg_larger == Abs(c.ku_ask - c.bin_bid) * c.bin_ask
                               >= Abs(c.ku_bid - c.bin_ask) * c.bin_bid
          IN  IF c.bin_bid <= 0 \/ c.bin_ask <= 0 \/ c.ku_bid <= 0 \/ c.ku_ask <= 0
              THEN r[1] = "none"
              ELSE /\ (pos_crosses /\ ~neg_crosses) => r = <<"pos", c.ku_bid - c.bin_ask, c.bin_ask>>
                   /\ (neg_crosses /\ ~pos_crosses) => r = <<"neg", c.ku_ask - c.bin_bid, c.bin_bid>>
                   /\ (pos_crosses /\ neg_crosses)
                         => \/ pos_larger /\ r = <<"pos", c.ku_bid - c.bin_ask, c.bin_ask>>
                            \/ neg_larger /\ r = <<"neg", c.ku_ask - c.bin_bid, c.bin_bid>>


\* The threads that are inside close_all_and_wait; the scanner between the exception
\* out of its first call and its handler's call is taken to be inside as well.
InClose ==
    {t \in Threads : \/ pc[t] = "close_wait"
                     \/ t = "scanner" /\ pc[t] = "close_start" /\ ex.handler}

\* C35: closing_in_progress is true exactly in the states in which some thread is
\* inside close_all_and_wait, with several callers at once and after an exception.
C35_FlagTracksClose == closing_in_progress <=> InClose # {}


\* C36: entry_confirm_count[sym] stays within 0..CONFIRMATIONS, and when an entry
\* attempt finishes (the scanner is back in its loop), whichever way it ended, the
\* counter of the attempt's symbol is 0.
C36_CounterResetAfterAttempt ==
    [][/\ \A s \in Symbols : entry_confirm_count'[s] \in 0..CONFIRMATIONS
       /\ (pc["scanner"] # "scan" /\ pc'["scanner"] = "scan")
             => entry_confirm_count'[ex.sym] = 0]_vars


\* C37: the single-position guard fails closed.  When the position fetches of the
\* open tracked legs raise, has_open_positions does not answer "nothing open": the
\* scanner's evaluation does not dispatch an entry, and a pass of the wait loop of
\* close_all_and_wait before its timeout does not end the wait as confirmed.
C37_GuardFailsClosed ==
    [][/\ \A s \in Symbols, q \in ScanQuotes, f2 \in FetchFails, resolved \in BOOLEAN :
             (TRUE \in FetchFails /\ Observe(s, q, TRUE, f2, resolved))
                => pc'["scanner"] # "dispatch"
       /\ \A t \in Threads :
             (TRUE \in FetchFails /\ ClosePoll(t, TRUE) /\ polls[t] + 1 < MaxPolls)
                => pc'[t] = "close_wait"]_vars


\* C38: a symbol leaves TRADED_BINANCE_SYMBOLS and KUCOIN_CCXT_MAP only in a state
\* in which both venues hold no quantity of it.
C38_UntrackedOnlyWhenFlat ==
    [][\A s \in Symbols :
          (\/ s \in TRADED_BINANCE_SYMBOLS \ TRADED_BINANCE_SYMBOLS'
           \/ s \in KUCOIN_CCXT_MAP \ KUCOIN_CCXT_MAP')
             => \A v \in Venues : qty[v][s] = 0]_vars


\* C39: in every state in which a symbol is marked as holding a position the exit
\* monitor's loop is alive; no position is marked after the loop has ended on
\* terminate_bot.
C39_OpenHasExitMonitor ==
    \A s \in Symbols : positions[s] # "none" => pc["exit"] # "dead"


\* The step in which execute_case takes one of its accept branches.
AcceptStep ==
    \E v \in Venues : \E out \in OrderOutcomes(v, ex.res[v].price) :
        Decide(out) /\ Decision(ex.res["binance"], ex.res["kucoin"], out) = "accept"

\* C40: every step of an entry attempt other than its accept step -- the steps of
\* a partial failure, of a failed or insufficient rebalance, and of the flatten that
\* follows -- leaves positions, entry_prices, entry_spreads and exit_confirm_count
\* of the symbol as they were, and starts no liquidation watcher for it.
C40_FailedEntryFrame ==
    [][(ScannerInAttempt /\ ~AcceptStep)
          => /\ positions'[ex.sym] = positions[ex.sym]
             /\ entry_prices'[ex.sym] = entry_prices[ex.sym]
             /\ entry_spreads'[ex.sym] = entry_spreads[ex.sym]
             /\ exit_confirm_count'[ex.sym] = exit_confirm_count[ex.sym]
             /\ ex.sym \in liquidation_watchers' => ex.sym \in liquidation_watchers
             /\ pc'[ex.sym] = "winit" => pc[ex.sym] = "winit"]_vars

\* An attempt whose legs both filled was sent to the flatten by its rebalance; the
\* symbol has no position, no entry prices and no watcher.
C40_Witness ==
    /\ pc["scanner"] = "close_wait"
    /\ ex.flat /\ ~ex.handler
    /\ LegsFilled(ex.res["binance"], ex.res["kucoin"])
    /\ positions[ex.sym] = "none"
    /\ entry_prices[ex.sym] = NoPrices
    /\ ex.sym \notin liquidation_watchers
    /\ pc[ex.sym] = "off"

====
